---- MODULE Spec2Model ----
(***************************************************************************)
(* Model of flyctl's "logs ship" setup workflow (package logs) and of the  *)
(* gql helpers it uses.  Remote state (apps, machines, add-ons, access     *)
(* tokens, secrets) is changed only through the remote calls the code      *)
(* issues; every remote call is one step and may succeed or fail.          *)
(***************************************************************************)
EXTENDS Integers, Sequences, FiniteSets, TLC

\* ------------------------------------------------------------------ bounds
\* Machines the shipper app may already have before the first call.
MaxInitMachines == 2
\* Wrapping layers (fmt.Errorf("...%w")) around an error GetAddOn returns.
MaxWrap == 1
\* Access tokens ever created; a new call starts only below this.
MaxTokens == 2
\* Add-ons ever created by the calls; a new call starts only below this.
MaxAddOns == 1

\* The operator processes.  The sequential specification runs one at a time.
Procs == {1, 2}

\* --------------------------------------------------------------- constants
providers ==
  << [Slug |-> "aws_s3", Name |-> "AWS S3", Auto |-> FALSE,
      RequriedVars |-> <<"AWS_BUCKET", "AWS_REGION", "AWS_ACCESS_KEY_ID", "AWS_SECRET_ACCESS_KEY">>,
      OptionalVars |-> <<"S3_ENDPOINT">>],
     [Slug |-> "axiom", Name |-> "Axiom", Auto |-> FALSE,
      RequriedVars |-> <<"AXIOM_TOKEN", "AXIOM_DATASET">>, OptionalVars |-> <<>>],
     [Slug |-> "datadog", Name |-> "Datadog", Auto |-> FALSE,
      RequriedVars |-> <<"DATADOG_API_KEY">>, OptionalVars |-> <<"DATADOG_SITE">>],
     [Slug |-> "erasearch", Name |-> "Erasearch", Auto |-> FALSE,
      RequriedVars |-> <<"ERASEARCH_URL", "ERASEARCH_INDEX", "ERASEARCH_AUTH">>, OptionalVars |-> <<>>],
     [Slug |-> "honeycomb", Name |-> "Honeycomb", Auto |-> FALSE,
      RequriedVars |-> <<"HONEYCOMB_API_KEY", "HONEYCOMB_DATASET">>, OptionalVars |-> <<>>],
     [Slug |-> "http", Name |-> "HTTP", Auto |-> FALSE,
      RequriedVars |-> <<"HTTP_URL", "HTTP_TOKEN">>, OptionalVars |-> <<>>],
     [Slug |-> "humio", Name |-> "Humio", Auto |-> FALSE,
      RequriedVars |-> <<"HUMIO_TOKEN">>, OptionalVars |-> <<>>],
     [Slug |-> "mezmo", Name |-> "Mezmo", Auto |-> FALSE,
      RequriedVars |-> <<"MEZMO_API_KEY">>, OptionalVars |-> <<>>],
     [Slug |-> "logflare", Name |-> "Logflare", Auto |-> FALSE,
      RequriedVars |-> <<"LOGFLARE_API_KEY", "LOGFLARE_SOURCE_TOKEN">>, OptionalVars |-> <<>>],
     [Slug |-> "logtail", Name |-> "Logtail", Auto |-> TRUE,
      RequriedVars |-> <<>>, OptionalVars |-> <<>>],
     [Slug |-> "loki", Name |-> "Loki", Auto |-> FALSE,
      RequriedVars |-> <<"LOKI_URL", "LOKI_USERNAME", "LOKI_PASSWORD">>, OptionalVars |-> <<>>],
     [Slug |-> "new_relic", Name |-> "New Relic", Auto |-> FALSE,
      RequriedVars |-> <<"NEW_RELIC_REGION", "NEW_RELIC_ACCOUNT_ID">>,
      OptionalVars |-> <<"NEW_RELIC_LICENSE_KEY", "NEW_RELIC_INSERT_KEY">>],
     [Slug |-> "papertrail", Name |-> "Papertrail", Auto |-> FALSE,
      RequriedVars |-> <<"PAPERTRAIL_ENDPOINT">>, OptionalVars |-> <<"PAPERTRAIL_ENCODING_CODEC">>],
     [Slug |-> "sematext", Name |-> "Sematext", Auto |-> FALSE,
      RequriedVars |-> <<"SEMATEXT_REGION", "SEMATEXT_TOKEN">>, OptionalVars |-> <<>>],
     [Slug |-> "uptrace", Name |-> "Uptrace", Auto |-> FALSE,
      RequriedVars |-> <<"UPTRACE_API_KEY", "UPTRACE_PROJECT">>,
      OptionalVars |-> <<"UPTRACE_SINK_INPUT", "UPTRACE_SINK_ENCODING">>] >>

\* The slug -> add-on type table.
AddOnTypes == [s \in {"logtail", "upstash_redis"} |->
                 IF s = "logtail" THEN "AddOnTypeLogtail" ELSE "AddOnTypeUpstashRedis"]

\* gql.AddOnTypes[provider]: a Go map read yields the zero value for a missing key.
AddOnTypesLookup(provider) ==
  IF provider \in DOMAIN AddOnTypes THEN AddOnTypes[provider] ELSE ""

\* Every slug ProvisionAutoShipper may be handed: the registry's and the table's.
ProviderSlugs == {providers[i].Slug : i \in DOMAIN providers} \cup DOMAIN AddOnTypes

\* The organization and the application the command is run for.
TargetOrg == [Id |-> "org1", Slug |-> "personal", RawSlug |-> "acme"]
TargetApp == [Id |-> "app-myapp", Name |-> "myapp", Organization |-> TargetOrg]

\* Region codes the nearest-region query may answer.
Regions == {"ams", "ord"}

\* ------------------------------------------------------------------ errors
\* An error is its chain, outermost first; errors.Unwrap drops the head and
\* nil is the empty chain.  A node is a gqlerror.List or any other error and
\* carries the words of its own message.
NilErr == <<>>
Unwrap(err) == IF err = NilErr THEN NilErr ELSE Tail(err)
IsList(err) == err # NilErr /\ Head(err).typ = "List"

RECURSIVE ErrorString(_)
\* err.Error(): a wrapper prints its own text followed by the wrapped error's.
ErrorString(err) ==
  IF err = NilErr THEN <<>> ELSE Head(err).msg \o ErrorString(Tail(err))

\* strings.Contains, on words.
Contains(s, sub) ==
  \E i \in 0..(Len(s) - Len(sub)) : SubSeq(s, i + 1, i + Len(sub)) = sub

IsErrorNotFound(err) == Contains(ErrorString(err), <<"not", "find">>)

\* The error a failing remote call op returns.
RemoteErr(op) == <<[typ |-> "Plain", msg |-> <<op, "failed">>]>>

RECURSIVE WrapN(_, _)
WrapN(err, n) ==
  IF n = 0 THEN err
  ELSE <<[typ |-> "Plain", msg |-> <<"request", ":">>]>> \o WrapN(err, n - 1)

NotFoundList == <<[typ |-> "List", msg |-> <<"Could", "not", "find", "AddOn">>]>>
OtherList == <<[typ |-> "List", msg |-> <<"Not", "authorized">>]>>
PlainErr == <<[typ |-> "Plain", msg |-> <<"connection", "refused">>]>>

\* What the add-on lookup can answer with when it fails: the server's errors
\* arrive as a GraphQL error list, transport errors as other errors; an
\* add-on that exists is never reported as not found.
GetAddOnErrors(exists) ==
  {WrapN(e, n) : e \in ({OtherList, PlainErr} \cup
                        (IF exists THEN {} ELSE {NotFoundList})),
                 n \in 0..MaxWrap}

EmptyToken == <<>>
NoApp == [Id |-> "", Name |-> "", Organization |-> [Id |-> "", Slug |-> "", RawSlug |-> ""]]

\* ------------------------------------------------------------------- names
LoggerAppName(prefix) == prefix \o "-auto-log-shipper"
LoggerAddOnName(appName, provider) == appName \o "-" \o provider

\* ------------------------------------------------------------------- state
VARIABLES
  apps,      \* the organization's apps with role log-shipper, in the order GetAppsByRole lists them
  machines,  \* the machines of those apps
  addOns,    \* the add-ons
  tokens,    \* the limited access tokens created
  secrets,   \* the secrets set on apps
  run,       \* per process: the call in progress (position, locals, results, remote calls issued)
  prev       \* the call that finished last, if it was a call of EnsureShipperApp:
             \* the app it returned, and whether it returned without error

vars == <<apps, machines, addOns, tokens, secrets, run, prev>>

IdleRun ==
  [pc |-> "idle", entry |-> "none", stack |-> <<>>,
   provider |-> "", err |-> NilErr, shipperApp |-> NoApp, region |-> "",
   natsToken |-> EmptyToken,
   paCalled |-> FALSE, paToken |-> EmptyToken, paErr |-> NilErr,
   esaCalled |-> FALSE, esaApp |-> NoApp, esaErr |-> NilErr,
   esmArgs |-> <<>>, esmRets |-> <<>>,
   sntCalled |-> FALSE, sntReturned |-> FALSE, sntErr |-> NilErr,
   ret |-> NilErr, log |-> <<>>,
   start |-> [apps |-> <<>>, machines |-> <<>>, addOns |-> <<>>, tokens |-> 0]]

NoPrev == [called |-> FALSE, app |-> NoApp, ok |-> FALSE]

ExistingApp == [Id |-> "shipper0", Name |-> LoggerAppName(TargetOrg.RawSlug), Organization |-> TargetOrg]
ExistingAddOn == [Name |-> TargetApp.Name \o "-log-shipper", Token |-> <<"addon", 0>>,
                  Type |-> "AddOnTypeLogtail", OrganizationId |-> TargetOrg.Id, AppId |-> TargetApp.Id]
ExistingMachine(r) == [App |-> ExistingApp.Name, Name |-> "log-shipper", Region |-> r]

Init ==
  /\ apps \in {<<>>, <<ExistingApp>>}
  /\ \E n \in 0..MaxInitMachines :
       /\ (apps = <<>> => n = 0)
       /\ machines = [i \in 1..n |-> ExistingMachine("ams")]
  /\ addOns \in {<<>>, <<ExistingAddOn>>}
  /\ tokens = 0
  /\ secrets = {}
  /\ run = [p \in Procs |-> IdleRun]
  /\ prev = NoPrev


\* ------------------------------------------------- calls and their returns
\* The calls to collaborators a process has made: the operation, its input
\* (for the region query and the prompt, its answer; for the two listings,
\* the number of entries answered as well) and the error it came back with.
Logged(rec, op, arg, err) ==
  [rec EXCEPT !.log = Append(@, [op |-> op, arg |-> arg, err |-> err])]

\* The entry point returns err to the command runner.
Return(rec, err) == [rec EXCEPT !.pc = "done", !.ret = err]

\* gql.ToAppCompact: only the name and the organization slug survive.
ToAppCompact(app) ==
  [Name |-> app.Name, Organization |-> [Slug |-> app.Organization.Slug]]

CallEnsureShipperMachine(rec, caller, app) ==
  [rec EXCEPT !.pc = "ESM_FlapsNew", !.stack = <<caller>> \o @,
              !.shipperApp = app, !.esmArgs = Append(@, app)]

CallSetNatsTokenSecret(rec) ==
  [rec EXCEPT !.pc = "SNT_CreateToken", !.sntCalled = TRUE]

CallEnsureShipperApp(rec) ==
  [rec EXCEPT !.pc = "ESA_GetApps", !.esaCalled = TRUE]

CallProvisionAutoShipper(rec, provider) ==
  [rec EXCEPT !.pc = "PA_GetAddOn", !.paCalled = TRUE, !.provider = provider]

\* SetNatsTokenSecret returns err.  runSetup drops the value and returns its
\* own err, last assigned from EnsureShipperMachine.
RetSetNatsTokenSecret(rec, err) ==
  LET r1 == [rec EXCEPT !.sntReturned = TRUE, !.sntErr = err]
  IN  IF rec.entry = "runSetup" THEN Return(r1, r1.err) ELSE Return(r1, err)

\* EnsureShipperApp returns (app, err).  runSetup returns a non-nil err and
\* otherwise goes on to EnsureShipperMachine.
RetEnsureShipperApp(rec, app, err) ==
  LET r1 == [rec EXCEPT !.esaApp = app, !.esaErr = err]
  IN  IF rec.entry = "runSetup"
      THEN IF err # NilErr
           THEN Return([r1 EXCEPT !.err = err], err)
           ELSE CallEnsureShipperMachine([r1 EXCEPT !.err = err], "runSetup", app)
      ELSE Return(r1, err)

\* EnsureShipperMachine returns err: to EnsureShipperApp, which returns
\* (nil, err) on an error; to runSetup, which assigns err and goes on to
\* SetNatsTokenSecret without looking at it; or to the command runner.
RetEnsureShipperMachine(rec, err) ==
  LET caller == Head(rec.stack)
      r1 == [rec EXCEPT !.stack = Tail(@), !.esmRets = Append(@, err)]
  IN  CASE caller = "EnsureShipperApp" ->
             IF err # NilErr THEN RetEnsureShipperApp(r1, NoApp, err)
             ELSE RetEnsureShipperApp(r1, r1.shipperApp, NilErr)
        [] caller = "runSetup" ->
             CallSetNatsTokenSecret([r1 EXCEPT !.err = err])
        [] OTHER -> Return(r1, err)

\* ProvisionAutoShipper returns (token, err).  runSetup drops both.
RetProvisionAutoShipper(rec, token, err) ==
  LET r1 == [rec EXCEPT !.paToken = token, !.paErr = err]
  IN  IF rec.entry = "runSetup" THEN CallEnsureShipperApp(r1) ELSE Return(r1, err)

\* ------------------------------------------------------------ entry points
\* Calls do not overlap: a call starts when every process is idle.
CanStart(p) ==
  /\ \A q \in Procs : run[q].pc = "idle" /\ p <= q
  /\ tokens < MaxTokens
  /\ Len(SelectSeq(addOns, LAMBDA a : a # ExistingAddOn)) < MaxAddOns

Remote == <<apps, machines, addOns, tokens, secrets>>

\* The record of a call that starts now at entry point entry; start keeps
\* the remote state the call found.
NewRun(entry) ==
  [IdleRun EXCEPT !.entry = entry,
                  !.start = [apps |-> apps, machines |-> machines, addOns |-> addOns,
                             tokens |-> tokens]]

StartRunSetup(p) ==
  /\ CanStart(p)
  /\ run' = [run EXCEPT ![p] = [NewRun("runSetup") EXCEPT !.pc = "RS_GetApp"]]
  /\ UNCHANGED <<Remote, prev>>

StartProvisionAutoShipper(p) ==
  /\ CanStart(p)
  /\ \E provider \in ProviderSlugs :
       run' = [run EXCEPT ![p] =
                 CallProvisionAutoShipper(NewRun("ProvisionAutoShipper"), provider)]
  /\ UNCHANGED <<Remote, prev>>

StartEnsureShipperApp(p) ==
  /\ CanStart(p)
  /\ run' = [run EXCEPT ![p] =
               CallEnsureShipperApp(NewRun("EnsureShipperApp"))]
  /\ UNCHANGED <<Remote, prev>>

StartEnsureShipperMachine(p) ==
  /\ CanStart(p)
  /\ \E i \in DOMAIN apps :
       run' = [run EXCEPT ![p] =
                 CallEnsureShipperMachine(NewRun("EnsureShipperMachine"), "top", apps[i])]
  /\ UNCHANGED <<Remote, prev>>

StartSetNatsTokenSecret(p) ==
  /\ CanStart(p)
  /\ \E i \in DOMAIN apps :
       run' = [run EXCEPT ![p] =
                 CallSetNatsTokenSecret([NewRun("SetNatsTokenSecret") EXCEPT !.shipperApp = apps[i]])]
  /\ UNCHANGED <<Remote, prev>>

\* The entry point has returned; the process is free for the next call.
Finish(p) ==
  /\ run[p].pc = "done"
  /\ prev' = IF run[p].entry = "EnsureShipperApp"
              THEN [called |-> TRUE, app |-> run[p].esaApp, ok |-> run[p].esaErr = NilErr]
              ELSE NoPrev
  /\ run' = [run EXCEPT ![p] = IdleRun]
  /\ UNCHANGED Remote

\* ---------------------------------------------------------------- runSetup
RS_GetApp(p) ==
  /\ run[p].pc = "RS_GetApp"
  /\ \E ok \in BOOLEAN :
       LET r1 == Logged(run[p], "GetApp", [Name |-> TargetApp.Name],
                        IF ok THEN NilErr ELSE RemoteErr("GetApp"))
       IN  run' = [run EXCEPT ![p] =
                     IF ok THEN [r1 EXCEPT !.pc = "RS_Select"]
                     ELSE Return([r1 EXCEPT !.err = RemoteErr("GetApp")], RemoteErr("GetApp"))]
  /\ UNCHANGED <<Remote, prev>>

\* A setup that provisions the add-on whatever the provider selected.
M_AfterSelect_AlwaysProvision(rec, providerIndex, err) ==
  IF err # NilErr THEN Return([rec EXCEPT !.err = err], err)
  ELSE CallProvisionAutoShipper(rec, providers[providerIndex].Slug)

\* After the prompt: the add-on is provisioned for an Auto provider only.
AfterSelect(rec, providerIndex, err) ==
  IF err # NilErr THEN Return([rec EXCEPT !.err = err], err)
  ELSE IF providers[providerIndex].Auto
       THEN CallProvisionAutoShipper(rec, providers[providerIndex].Slug)
       ELSE CallEnsureShipperApp(rec)

RS_Select(p) ==
  /\ run[p].pc = "RS_Select"
  /\ \/ \E i \in DOMAIN providers :
          run' = [run EXCEPT ![p] =
                    AfterSelect(Logged(run[p], "prompt.Select", [Auto |-> providers[i].Auto], NilErr),
                                i, NilErr)]
     \/ run' = [run EXCEPT ![p] =
                  AfterSelect(Logged(run[p], "prompt.Select", [Auto |-> FALSE],
                                     RemoteErr("prompt.Select")),
                              1, RemoteErr("prompt.Select"))]
  /\ UNCHANGED <<Remote, prev>>


\* ---------------------------------------------------- ProvisionAutoShipper
\* A loop that looks at the error itself and never unwraps it.
M_ChainHasList_NoUnwrap(err) == IsList(err)

RECURSIVE ChainHasList(_)
\* The loop `for err != nil`: does it meet a gqlerror.List before the chain ends?
ChainHasList(err) ==
  IF err = NilErr THEN FALSE
  ELSE IF IsList(err) THEN TRUE
  ELSE ChainHasList(Unwrap(err))

\* After GetAddOn.  A gqlerror.List anywhere in the chain leads to the create
\* mutation, whatever it reports; any other chain is unwrapped down to nil
\* and then taken for "already provisioned", as is a fetch without error.
\* An "already provisioned" path that forgets to hand out the fetched token.
M_AfterGetAddOn_NoToken(rec, respToken, err) ==
  IF ChainHasList(err) THEN [rec EXCEPT !.pc = "PA_CreateAddOn"]
  ELSE RetProvisionAutoShipper(rec, EmptyToken, NilErr)

AfterGetAddOn(rec, respToken, err) ==
  IF ChainHasList(err) THEN [rec EXCEPT !.pc = "PA_CreateAddOn"]
  ELSE RetProvisionAutoShipper(rec, respToken, NilErr)

AddOnName(targetApp) == targetApp.Name \o "-log-shipper"

\* The first add-on of that name, as the fetch answers it.
AddOnIndex(name) ==
  IF \E i \in DOMAIN addOns : addOns[i].Name = name
  THEN CHOOSE i \in DOMAIN addOns :
         addOns[i].Name = name /\ \A j \in 1..(i - 1) : addOns[j].Name # name
  ELSE 0

PA_GetAddOn(p) ==
  /\ run[p].pc = "PA_GetAddOn"
  /\ LET name == AddOnName(TargetApp)
         idx == AddOnIndex(name)
     IN  \/ /\ idx # 0
            /\ run' = [run EXCEPT ![p] =
                         AfterGetAddOn(Logged(run[p], "GetAddOn", [Name |-> name], NilErr),
                                       addOns[idx].Token, NilErr)]
         \/ \E err \in GetAddOnErrors(idx # 0) :
              \* the response of a failed fetch is the zero value
              run' = [run EXCEPT ![p] =
                        AfterGetAddOn(Logged(run[p], "GetAddOn", [Name |-> name], err),
                                      EmptyToken, err)]
  /\ UNCHANGED <<Remote, prev>>

CreateAddOnInput(targetApp, provider) ==
  [OrganizationId |-> targetApp.Organization.Id,
   Name |-> AddOnName(targetApp),
   AppId |-> targetApp.Id,
   Type |-> AddOnTypesLookup(provider)]

AfterCreateAddOn(rec, token, err) ==
  IF err # NilErr THEN RetProvisionAutoShipper(rec, EmptyToken, err)
  ELSE RetProvisionAutoShipper(rec, token, NilErr)

PA_CreateAddOn(p) ==
  /\ run[p].pc = "PA_CreateAddOn"
  /\ LET input == CreateAddOnInput(TargetApp, run[p].provider)
         token == <<"addon", Len(addOns) + 1>>
     IN  \/ /\ addOns' = Append(addOns, [Name |-> input.Name, Token |-> token, Type |-> input.Type,
                                         OrganizationId |-> input.OrganizationId, AppId |-> input.AppId])
            /\ run' = [run EXCEPT ![p] =
                         AfterCreateAddOn(Logged(run[p], "CreateAddOn", input, NilErr), token, NilErr)]
         \/ /\ UNCHANGED addOns
            /\ run' = [run EXCEPT ![p] =
                         AfterCreateAddOn(Logged(run[p], "CreateAddOn", input, RemoteErr("CreateAddOn")),
                                          EmptyToken, RemoteErr("CreateAddOn"))]
  /\ UNCHANGED <<apps, machines, tokens, secrets, prev>>

\* -------------------------------------------------------- EnsureShipperApp
\* A resolver that creates an app without looking at the apps found.
M_AfterGetAppsByRole_AlwaysCreate(rec, nodes, err) ==
  IF err # NilErr THEN RetEnsureShipperApp(rec, NoApp, err)
  ELSE [rec EXCEPT !.pc = "ESA_CreateApp"]

AfterGetAppsByRole(rec, nodes, err) ==
  IF err # NilErr THEN RetEnsureShipperApp(rec, NoApp, err)
  ELSE IF Len(nodes) > 0 THEN RetEnsureShipperApp(rec, nodes[1], NilErr)
  ELSE [rec EXCEPT !.pc = "ESA_CreateApp"]

ESA_GetApps(p) ==
  /\ run[p].pc = "ESA_GetApps"
  /\ LET arg(n) == [Role |-> "log-shipper", OrganizationId |-> TargetOrg.Id, Nodes |-> n]
     IN  \/ run' = [run EXCEPT ![p] =
                      AfterGetAppsByRole(Logged(run[p], "GetAppsByRole", arg(Len(apps)), NilErr),
                                         apps, NilErr)]
         \/ run' = [run EXCEPT ![p] =
                      AfterGetAppsByRole(Logged(run[p], "GetAppsByRole", arg(0), RemoteErr("GetAppsByRole")),
                                         <<>>, RemoteErr("GetAppsByRole"))]
  /\ UNCHANGED <<Remote, prev>>

\* An app input named after the organization's slug, not its raw slug.
M_CreateAppInput_Slug(targetOrg) ==
  [Machines |-> TRUE, OrganizationId |-> targetOrg.Id, AppRoleId |-> "log-shipper",
   Name |-> LoggerAppName(targetOrg.Slug)]

CreateAppInput(targetOrg) ==
  [Machines |-> TRUE, OrganizationId |-> targetOrg.Id, AppRoleId |-> "log-shipper",
   Name |-> LoggerAppName(targetOrg.RawSlug)]

\* A resolver that returns the app it created without giving it a machine.
M_AfterCreateApp_NoMachine(rec, app, err) ==
  IF err # NilErr THEN RetEnsureShipperApp(rec, NoApp, err)
  ELSE RetEnsureShipperApp(rec, app, NilErr)

AfterCreateApp(rec, app, err) ==
  IF err # NilErr THEN RetEnsureShipperApp(rec, NoApp, err)
  ELSE CallEnsureShipperMachine(rec, "EnsureShipperApp", app)

ESA_CreateApp(p) ==
  /\ run[p].pc = "ESA_CreateApp"
  /\ LET input == CreateAppInput(TargetOrg)
         app == [Id |-> "shipper" \o ToString(Len(apps) + 1), Name |-> input.Name,
                 Organization |-> TargetOrg]
     IN  \/ /\ apps' = Append(apps, app)
            /\ run' = [run EXCEPT ![p] =
                         AfterCreateApp(Logged(run[p], "CreateApp", input, NilErr), app, NilErr)]
         \/ /\ UNCHANGED apps
            /\ run' = [run EXCEPT ![p] =
                         AfterCreateApp(Logged(run[p], "CreateApp", input, RemoteErr("CreateApp")),
                                        NoApp, RemoteErr("CreateApp"))]
  /\ UNCHANGED <<machines, addOns, tokens, secrets, prev>>

\* ---------------------------------------------------- EnsureShipperMachine
ESM_FlapsNew(p) ==
  /\ run[p].pc = "ESM_FlapsNew"
  /\ LET arg == ToAppCompact(run[p].shipperApp)
     IN  \/ run' = [run EXCEPT ![p] = [Logged(run[p], "flaps.New", arg, NilErr) EXCEPT !.pc = "ESM_List"]]
         \/ run' = [run EXCEPT ![p] =
                      RetEnsureShipperMachine(Logged(run[p], "flaps.New", arg, RemoteErr("flaps.New")),
                                              RemoteErr("flaps.New"))]
  /\ UNCHANGED <<Remote, prev>>

\* The machines the flaps client of that app lists.
MachinesOf(app) == SelectSeq(machines, LAMBDA m : m.App = ToAppCompact(app).Name)

\* A resolver that launches without looking at the machines listed.
M_AfterList_AlwaysLaunch(rec, ms, err) ==
  IF err # NilErr THEN RetEnsureShipperMachine(rec, err)
  ELSE [rec EXCEPT !.pc = "ESM_Region"]

AfterList(rec, ms, err) ==
  IF err # NilErr THEN RetEnsureShipperMachine(rec, err)
  ELSE IF Len(ms) > 0 THEN RetEnsureShipperMachine(rec, NilErr)
  ELSE [rec EXCEPT !.pc = "ESM_Region"]

ESM_List(p) ==
  /\ run[p].pc = "ESM_List"
  /\ LET arg(n) == [App |-> ToAppCompact(run[p].shipperApp), Machines |-> n]
         ms == MachinesOf(run[p].shipperApp)
     IN  \/ run' = [run EXCEPT ![p] =
                      AfterList(Logged(run[p], "List", arg(Len(ms)), NilErr), ms, NilErr)]
         \/ run' = [run EXCEPT ![p] =
                      AfterList(Logged(run[p], "List", arg(0), RemoteErr("List")), <<>>, RemoteErr("List"))]
  /\ UNCHANGED <<Remote, prev>>

ESM_Region(p) ==
  /\ run[p].pc = "ESM_Region"
  /\ \/ \E code \in Regions :
          run' = [run EXCEPT ![p] =
                    [Logged(run[p], "GetNearestRegion", [Code |-> code], NilErr)
                       EXCEPT !.pc = "ESM_Launch", !.region = code]]
     \/ run' = [run EXCEPT ![p] =
                  RetEnsureShipperMachine(Logged(run[p], "GetNearestRegion", [Code |-> ""], RemoteErr("GetNearestRegion")),
                                          RemoteErr("GetNearestRegion"))]
  /\ UNCHANGED <<Remote, prev>>

\* A launch request with a fixed region, whatever the region query answered.
M_LaunchMachineInput_FixedRegion(region) ==
  [Name |-> "log-shipper", Region |-> "ams",
   Config |-> [Guest |-> [CPUKind |-> "shared", CPUs |-> 1, MemoryMB |-> 256],
               Image |-> "flyio/log-shipper:auto-a14aa63",
               Metadata |-> [MachineConfigMetadataKeyFlyPlatformVersion |-> "MachineFlyPlatformVersion2",
                             MachineConfigMetadataKeyFlyManagedPostgres |-> "true",
                             managed_by_fly_deploy |-> "true"]]]

LaunchMachineInput(region) ==
  [Name |-> "log-shipper", Region |-> region,
   Config |-> [Guest |-> [CPUKind |-> "shared", CPUs |-> 1, MemoryMB |-> 256],
               Image |-> "flyio/log-shipper:auto-a14aa63",
               Metadata |-> [MachineConfigMetadataKeyFlyPlatformVersion |-> "MachineFlyPlatformVersion2",
                             MachineConfigMetadataKeyFlyManagedPostgres |-> "true",
                             managed_by_fly_deploy |-> "true"]]]

\* A launch that rolls back on failure: it deletes the shipper app.
M_ESM_Launch_Rollback(p) ==
  /\ run[p].pc = "ESM_Launch"
  /\ LET input == LaunchMachineInput(run[p].region)
         arg == [App |-> ToAppCompact(run[p].shipperApp).Name, Input |-> input]
     IN  \/ /\ machines' = Append(machines, [App |-> arg.App, Name |-> input.Name,
                                             Region |-> input.Region])
            /\ UNCHANGED apps
            /\ run' = [run EXCEPT ![p] =
                         RetEnsureShipperMachine(Logged(run[p], "Launch", arg, NilErr), NilErr)]
         \/ /\ UNCHANGED machines
            /\ apps' = SelectSeq(apps, LAMBDA a : a.Id # run[p].shipperApp.Id)
            /\ run' = [run EXCEPT ![p] =
                         RetEnsureShipperMachine(Logged(run[p], "Launch", arg, RemoteErr("Launch")),
                                                 RemoteErr("Launch"))]
  /\ UNCHANGED <<addOns, tokens, secrets, prev>>

ESM_Launch(p) ==
  /\ run[p].pc = "ESM_Launch"
  /\ LET input == LaunchMachineInput(run[p].region)
         arg == [App |-> ToAppCompact(run[p].shipperApp).Name, Input |-> input]
     IN  \/ /\ machines' = Append(machines, [App |-> arg.App, Name |-> input.Name,
                                             Region |-> input.Region])
            /\ run' = [run EXCEPT ![p] =
                         RetEnsureShipperMachine(Logged(run[p], "Launch", arg, NilErr), NilErr)]
         \/ /\ UNCHANGED machines
            /\ run' = [run EXCEPT ![p] =
                         RetEnsureShipperMachine(Logged(run[p], "Launch", arg, RemoteErr("Launch")),
                                                 RemoteErr("Launch"))]
  /\ UNCHANGED <<apps, addOns, tokens, secrets, prev>>


\* ------------------------------------------------------ SetNatsTokenSecret
AfterCreateLimitedAccessToken(rec, token, err) ==
  IF err # NilErr THEN RetSetNatsTokenSecret(rec, err)
  ELSE [rec EXCEPT !.pc = "SNT_SetSecrets", !.natsToken = token]

SNT_CreateToken(p) ==
  /\ run[p].pc = "SNT_CreateToken"
  /\ LET app == run[p].shipperApp
         arg == [Name |-> app.Organization.Slug \o "-logs",
                 OrganizationId |-> app.Organization.Id,
                 Profile |-> "read_organization_apps"]
         token == <<"nats", tokens + 1>>
     IN  \/ /\ tokens' = tokens + 1
            /\ run' = [run EXCEPT ![p] =
                         AfterCreateLimitedAccessToken(
                           Logged(run[p], "CreateLimitedAccessToken", arg, NilErr), token, NilErr)]
         \/ /\ UNCHANGED tokens
            /\ run' = [run EXCEPT ![p] =
                         AfterCreateLimitedAccessToken(
                           Logged(run[p], "CreateLimitedAccessToken", arg, RemoteErr("CreateLimitedAccessToken")),
                           EmptyToken, RemoteErr("CreateLimitedAccessToken"))]
  /\ UNCHANGED <<apps, machines, addOns, secrets, prev>>

SetSecretsInput(app, token) ==
  [AppId |-> app.Id, Key |-> "NATS_TOKEN", Value |-> token]

\* gql.SetSecrets is called as a statement: neither its response nor its
\* error is looked at, and the deployment is built next in either case.
AfterSetSecrets(rec, err) == [rec EXCEPT !.pc = "SNT_NewDeployment"]

SNT_SetSecrets(p) ==
  /\ run[p].pc = "SNT_SetSecrets"
  /\ LET input == SetSecretsInput(run[p].shipperApp, run[p].natsToken)
     IN  \/ /\ secrets' = {s \in secrets : ~(s.AppId = input.AppId /\ s.Key = input.Key)}
                            \cup {input}
            /\ run' = [run EXCEPT ![p] =
                         AfterSetSecrets(Logged(run[p], "SetSecrets", input, NilErr), NilErr)]
         \/ /\ UNCHANGED secrets
            /\ run' = [run EXCEPT ![p] =
                         AfterSetSecrets(Logged(run[p], "SetSecrets", input, RemoteErr("SetSecrets")),
                                         RemoteErr("SetSecrets"))]
  /\ UNCHANGED <<apps, machines, addOns, tokens, prev>>

MachineDeploymentArgs(app) ==
  [AppCompact |-> ToAppCompact(app), RestartOnly |-> TRUE, SkipHealthChecks |-> TRUE]

\* A secret applier that builds the deployment and never runs it.
M_AfterNewMachineDeployment_NoDeploy(rec, err) == RetSetNatsTokenSecret(rec, err)

AfterNewMachineDeployment(rec, err) ==
  IF err # NilErr THEN RetSetNatsTokenSecret(rec, err)
  ELSE [rec EXCEPT !.pc = "SNT_Deploy"]

SNT_NewDeployment(p) ==
  /\ run[p].pc = "SNT_NewDeployment"
  /\ LET arg == MachineDeploymentArgs(run[p].shipperApp)
     IN  \/ run' = [run EXCEPT ![p] =
                      AfterNewMachineDeployment(Logged(run[p], "NewMachineDeployment", arg, NilErr), NilErr)]
         \/ run' = [run EXCEPT ![p] =
                      AfterNewMachineDeployment(Logged(run[p], "NewMachineDeployment", arg, RemoteErr("NewMachineDeployment")),
                                                RemoteErr("NewMachineDeployment"))]
  /\ UNCHANGED <<Remote, prev>>

SNT_Deploy(p) ==
  /\ run[p].pc = "SNT_Deploy"
  /\ LET arg == MachineDeploymentArgs(run[p].shipperApp)
     IN  \/ run' = [run EXCEPT ![p] =
                      RetSetNatsTokenSecret(Logged(run[p], "DeployMachinesApp", arg, NilErr), NilErr)]
         \/ run' = [run EXCEPT ![p] =
                      RetSetNatsTokenSecret(Logged(run[p], "DeployMachinesApp", arg, RemoteErr("DeployMachinesApp")),
                                            RemoteErr("DeployMachinesApp"))]
  /\ UNCHANGED <<Remote, prev>>

\* ----------------------------------------------------------- specification
Next ==
  \E p \in Procs :
    \/ StartRunSetup(p)
    \/ StartProvisionAutoShipper(p)
    \/ StartEnsureShipperApp(p)
    \/ StartEnsureShipperMachine(p)
    \/ StartSetNatsTokenSecret(p)
    \/ RS_GetApp(p)
    \/ RS_Select(p)
    \/ PA_GetAddOn(p)
    \/ PA_CreateAddOn(p)
    \/ ESA_GetApps(p)
    \/ ESA_CreateApp(p)
    \/ ESM_FlapsNew(p)
    \/ ESM_List(p)
    \/ ESM_Region(p)
    \/ ESM_Launch(p)
    \/ SNT_CreateToken(p)
    \/ SNT_SetSecrets(p)
    \/ SNT_NewDeployment(p)
    \/ SNT_Deploy(p)
    \/ Finish(p)

Spec == Init /\ [][Next]_vars

\* Two setup runs for the same organization, started by two invocations of
\* the command, with nothing in the code that holds one back while the other
\* is under way: their remote calls interleave in any order.  The processes
\* are alike, so the lower-numbered one is taken to start first.
StartConcurrentSetup(p) ==
  /\ run[p].pc = "idle"
  /\ \A q \in Procs : q < p => run[q].pc # "idle"
  /\ run' = [run EXCEPT ![p] = [NewRun("runSetup") EXCEPT !.pc = "RS_GetApp"]]
  /\ UNCHANGED <<Remote, prev>>

\* The remote calls of a process that came back with a failure (the add-on
\* fetch answering "not found" is an answer, not a failure).
Failures(rec) ==
  Cardinality({i \in DOMAIN rec.log :
                 /\ rec.log[i].err # NilErr
                 /\ ~(rec.log[i].op = "GetAddOn" /\ IsErrorNotFound(rec.log[i].err))})

\* The interleavings followed are those of two runs whose remote calls all
\* succeed: the step taken leaves no failed call in either log.
NoFailure == \A q \in Procs : Failures(run'[q]) = 0

NextConcurrent ==
  \E p \in Procs :
    \/ StartConcurrentSetup(p) /\ NoFailure
    \/ RS_GetApp(p) /\ NoFailure
    \/ RS_Select(p) /\ NoFailure
    \/ PA_GetAddOn(p) /\ NoFailure
    \/ PA_CreateAddOn(p) /\ NoFailure
    \/ ESA_GetApps(p) /\ NoFailure
    \/ ESA_CreateApp(p) /\ NoFailure
    \/ ESM_FlapsNew(p) /\ NoFailure
    \/ ESM_List(p) /\ NoFailure
    \/ ESM_Region(p) /\ NoFailure
    \/ ESM_Launch(p) /\ NoFailure
    \/ SNT_CreateToken(p) /\ NoFailure
    \/ SNT_SetSecrets(p) /\ NoFailure
    \/ SNT_NewDeployment(p) /\ NoFailure
    \/ SNT_Deploy(p) /\ NoFailure

SpecConcurrent == Init /\ [][NextConcurrent]_vars

\* Setup runs one after the other.  Every remote call is synchronous and
\* blocking and the workflow goes on when it returns: a run that can take a
\* step eventually takes one.
SetupStep(p) ==
  \/ RS_GetApp(p)
  \/ RS_Select(p)
  \/ PA_GetAddOn(p)
  \/ PA_CreateAddOn(p)
  \/ ESA_GetApps(p)
  \/ ESA_CreateApp(p)
  \/ ESM_FlapsNew(p)
  \/ ESM_List(p)
  \/ ESM_Region(p)
  \/ ESM_Launch(p)
  \/ SNT_CreateToken(p)
  \/ SNT_SetSecrets(p)
  \/ SNT_NewDeployment(p)
  \/ SNT_Deploy(p)

NextSetup ==
  \E p \in Procs :
    \/ StartRunSetup(p)
    \/ SetupStep(p)
    \/ Finish(p)

SpecSetup ==
  Init /\ [][NextSetup]_vars /\ \A p \in Procs : WF_vars(SetupStep(p))


\* -------------------------------------------------------------- properties
Indices(log, op) == {i \in DOMAIN log : log[i].op = op}
CountOp(log, op) == Cardinality(Indices(log, op))
TheIndex(log, op) == CHOOSE i \in DOMAIN log : log[i].op = op

\* Every remote call of the run came back without error, but for the add-on
\* fetch answering "not found" for an add-on that is not there.
FailureFree(rec) ==
  \A i \in DOMAIN rec.log :
    \/ rec.log[i].err = NilErr
    \/ rec.log[i].op = "GetAddOn" /\ IsErrorNotFound(rec.log[i].err)

\* ProvisionAutoShipper was invoked in this call and has returned.
ProvisionReturned(rec) ==
  rec.paCalled /\ rec.pc \notin {"PA_GetAddOn", "PA_CreateAddOn"}

\* C1: sequential abort.  In a run of runSetup, once an invocation of
\* EnsureShipperMachine (from EnsureShipperApp or from runSetup) has returned
\* an error, SetNatsTokenSecret is not invoked.
C1_SequentialAbort ==
  \A p \in Procs :
    (/\ run[p].entry = "runSetup"
     /\ \E i \in DOMAIN run[p].esmRets : run[p].esmRets[i] # NilErr)
    => ~run[p].sntCalled

\* C2: error surfacing.  runSetup returns nil only if every step it invoked
\* (ProvisionAutoShipper, EnsureShipperApp, EnsureShipperMachine,
\* SetNatsTokenSecret) returned nil.
C2_ErrorSurfacing ==
  \A p \in Procs :
    (run[p].pc = "done" /\ run[p].entry = "runSetup" /\ run[p].ret = NilErr)
    => /\ run[p].paErr = NilErr
       /\ run[p].esaErr = NilErr
       /\ \A i \in DOMAIN run[p].esmRets : run[p].esmRets[i] = NilErr
       /\ run[p].sntErr = NilErr

\* C3: idempotent app resolution.  When EnsureShipperApp is called right
\* after a call of EnsureShipperApp and both return without error, the second
\* returns the app the first returned and issues no CreateApp.
C3_IdempotentAppResolution ==
  \A p \in Procs :
    (/\ run[p].pc = "done" /\ run[p].entry = "EnsureShipperApp"
     /\ run[p].esaErr = NilErr
     /\ prev.called /\ prev.ok)
    => /\ run[p].esaApp = prev.app
       /\ run[p].esaApp # NoApp
       /\ CountOp(run[p].log, "CreateApp") = 0

\* The first call created the app (none existed), the second returned it.
C3_Witness ==
  \E p \in Procs :
    /\ run[p].pc = "done" /\ run[p].entry = "EnsureShipperApp"
    /\ run[p].esaErr = NilErr /\ prev.called /\ prev.ok
    /\ run[p].start.apps # <<>>
    /\ run[p].esaApp.Id = "shipper1"

\* C4: idempotent machine resolution.  When the List call of
\* EnsureShipperMachine answers with one or more machines, the invocation
\* returns nil in that step, goes on to neither the nearest-region query nor
\* Launch, and leaves the machines as they are.
C4_IdempotentMachineResolution ==
  [][\A p \in Procs :
       (/\ run[p].pc = "ESM_List"
        /\ Len(run'[p].log) = Len(run[p].log) + 1
        /\ run'[p].log[Len(run'[p].log)].err = NilErr
        /\ Len(MachinesOf(run[p].shipperApp)) >= 1)
       => /\ run'[p].esmRets = Append(run[p].esmRets, NilErr)
          /\ run'[p].pc \notin {"ESM_Region", "ESM_Launch"}
          /\ CountOp(run'[p].log, "GetNearestRegion") = CountOp(run[p].log, "GetNearestRegion")
          /\ CountOp(run'[p].log, "Launch") = CountOp(run[p].log, "Launch")
          /\ machines' = machines]_vars

\* EnsureShipperMachine has returned nil for an app with two machines,
\* after listing them and without a region query or a launch.
C4_Witness ==
  \E p \in Procs :
    /\ run[p].pc = "done" /\ run[p].entry = "EnsureShipperMachine"
    /\ run[p].ret = NilErr
    /\ Len(MachinesOf(run[p].shipperApp)) = 2
    /\ CountOp(run[p].log, "List") = 1
    /\ CountOp(run[p].log, "Launch") = 0
    /\ machines = run[p].start.machines

\* C5: add-on reuse.  When the add-on fetch returns no error,
\* ProvisionAutoShipper returns the token of the existing add-on of that name
\* and a nil error, issues no CreateAddOn, and leaves the add-ons as they were.
C5_AddOnReuse ==
  \A p \in Procs :
    (/\ ProvisionReturned(run[p])
     /\ \E i \in Indices(run[p].log, "GetAddOn") : run[p].log[i].err = NilErr)
    => /\ \E i \in DOMAIN run[p].start.addOns :
            /\ run[p].start.addOns[i].Name = TargetApp.Name \o "-log-shipper"
            /\ \A j \in 1..(i - 1) : run[p].start.addOns[j].Name # run[p].start.addOns[i].Name
            /\ run[p].paToken = run[p].start.addOns[i].Token
       /\ run[p].paToken # EmptyToken
       /\ run[p].paErr = NilErr
       /\ CountOp(run[p].log, "CreateAddOn") = 0
       /\ addOns = run[p].start.addOns

C5_Witness ==
  \E p \in Procs :
    /\ run[p].pc = "done" /\ run[p].entry = "ProvisionAutoShipper"
    /\ run[p].log = <<[op |-> "GetAddOn", arg |-> [Name |-> "myapp-log-shipper"], err |-> NilErr]>>
    /\ run[p].paToken = ExistingAddOn.Token
    /\ addOns = <<ExistingAddOn>>

\* C6: add-on creation on absence.  When the add-on fetch fails with a
\* not-found error, ProvisionAutoShipper issues exactly one CreateAddOn, with
\* the organization id, the name <app>-log-shipper, the target app id and the
\* type AddOnTypes[provider]; it returns the new add-on's token and nil, or,
\* when the create mutation fails, the create error and an empty token.
C6_AddOnCreationOnAbsence ==
  \A p \in Procs :
    (/\ run[p].pc = "done" /\ run[p].entry = "ProvisionAutoShipper"
     /\ IsErrorNotFound(run[p].log[1].err))
    => /\ CountOp(run[p].log, "CreateAddOn") = 1
       /\ LET c == run[p].log[TheIndex(run[p].log, "CreateAddOn")]
          IN  /\ c.arg = [OrganizationId |-> TargetOrg.Id,
                          Name |-> TargetApp.Name \o "-log-shipper",
                          AppId |-> TargetApp.Id,
                          Type |-> IF run[p].provider \in DOMAIN AddOnTypes
                                   THEN AddOnTypes[run[p].provider] ELSE ""]
              /\ c.err = NilErr =>
                   /\ run[p].paErr = NilErr
                   /\ Len(addOns) = Len(run[p].start.addOns) + 1
                   /\ run[p].paToken = addOns[Len(addOns)].Token
                   /\ run[p].paToken # EmptyToken
              /\ c.err # NilErr =>
                   /\ run[p].paErr = c.err
                   /\ run[p].paToken = EmptyToken
                   /\ addOns = run[p].start.addOns

\* The not-found error came wrapped, the add-on was created with the logtail
\* type and its token returned.
C6_Witness ==
  \E p \in Procs :
    /\ run[p].pc = "done" /\ run[p].entry = "ProvisionAutoShipper"
    /\ run[p].provider = "logtail"
    /\ run[p].log[1].err = WrapN(NotFoundList, 1)
    /\ CountOp(run[p].log, "CreateAddOn") = 1
    /\ run[p].paErr = NilErr
    /\ addOns # <<>>
    /\ addOns[Len(addOns)].Type = "AddOnTypeLogtail"
    /\ run[p].paToken = addOns[Len(addOns)].Token

\* C7: errors of the add-on fetch that are not of the not-found class are
\* surfaced: ProvisionAutoShipper returns a non-nil error and issues no
\* CreateAddOn.
C7_OtherAddOnErrorsSurfaced ==
  \A p \in Procs :
    (/\ run[p].pc = "done" /\ run[p].entry = "ProvisionAutoShipper"
     /\ run[p].log[1].err # NilErr
     /\ ~IsErrorNotFound(run[p].log[1].err))
    => /\ run[p].paErr # NilErr
       /\ CountOp(run[p].log, "CreateAddOn") = 0

\* C8: unmapped provider rejection.  No CreateAddOn is submitted with the
\* empty add-on type a slug missing from AddOnTypes defaults to.
C8_UnmappedProviderRejected ==
  \A p \in Procs :
    \A i \in Indices(run[p].log, "CreateAddOn") : run[p].log[i].arg.Type # ""


\* C9: end-to-end first run.  A failure-free run of runSetup with provider
\* logtail for an organization without shipper app, machine and add-on
\* issues exactly one CreateApp (named <raw slug>-auto-log-shipper), invokes
\* EnsureShipperMachine twice and launches exactly one machine, in the region
\* the nearest-region query answered, issues exactly one CreateAddOn, creates
\* exactly one access token, and writes NATS_TOKEN once and then redeploys
\* once, restart-only.
C9_EndToEndFirstRun ==
  \A p \in Procs :
    (/\ run[p].pc = "done" /\ run[p].entry = "runSetup"
     /\ run[p].start.apps = <<>> /\ run[p].start.machines = <<>>
     /\ run[p].start.addOns = <<>>
     /\ run[p].provider = "logtail"
     /\ FailureFree(run[p]))
    => LET log == run[p].log
       IN  /\ CountOp(log, "CreateApp") = 1
           /\ log[TheIndex(log, "CreateApp")].arg.Name = "acme-auto-log-shipper"
           /\ Len(apps) = 1
           /\ Len(run[p].esmArgs) = 2
           /\ CountOp(log, "GetNearestRegion") = 1
           /\ CountOp(log, "Launch") = 1
           /\ log[TheIndex(log, "Launch")].arg.Input.Region =
                log[TheIndex(log, "GetNearestRegion")].arg.Code
           /\ Len(machines) = 1
           /\ machines[1].Region = log[TheIndex(log, "GetNearestRegion")].arg.Code
           /\ CountOp(log, "CreateAddOn") = 1
           /\ Len(addOns) = 1
           /\ CountOp(log, "CreateLimitedAccessToken") = 1
           /\ CountOp(log, "SetSecrets") = 1
           /\ log[TheIndex(log, "SetSecrets")].arg.Key = "NATS_TOKEN"
           /\ CountOp(log, "DeployMachinesApp") = 1
           /\ log[TheIndex(log, "DeployMachinesApp")].arg.RestartOnly
           /\ TheIndex(log, "SetSecrets") < TheIndex(log, "DeployMachinesApp")

\* Such a run has finished, with the machine launched in region ord.
C9_Witness ==
  \E p \in Procs :
    /\ run[p].pc = "done" /\ run[p].entry = "runSetup"
    /\ run[p].start.apps = <<>> /\ run[p].start.addOns = <<>>
    /\ run[p].provider = "logtail"
    /\ FailureFree(run[p])
    /\ run[p].ret = NilErr
    /\ Len(machines) = 1 /\ machines[1].Region = "ord"
    /\ CountOp(run[p].log, "DeployMachinesApp") = 1

\* C10: end-to-end rerun.  A failure-free run of runSetup for an
\* organization whose shipper app has one or more machines issues no
\* CreateApp and no Launch, and still creates exactly one new access token,
\* writes NATS_TOKEN once and redeploys once, however many runs came before.
C10_EndToEndRerun ==
  \A p \in Procs :
    (/\ run[p].pc = "done" /\ run[p].entry = "runSetup"
     /\ run[p].start.apps # <<>>
     /\ \E i \in DOMAIN run[p].start.machines :
          run[p].start.machines[i].App = run[p].start.apps[1].Name
     /\ FailureFree(run[p]))
    => LET log == run[p].log
       IN  /\ CountOp(log, "CreateApp") = 0
           /\ CountOp(log, "Launch") = 0
           /\ apps = run[p].start.apps
           /\ machines = run[p].start.machines
           /\ CountOp(log, "CreateLimitedAccessToken") = 1
           /\ tokens = run[p].start.tokens + 1
           /\ CountOp(log, "SetSecrets") = 1
           /\ log[TheIndex(log, "SetSecrets")].arg =
                [AppId |-> run[p].start.apps[1].Id, Key |-> "NATS_TOKEN",
                 Value |-> <<"nats", tokens>>]
           /\ CountOp(log, "DeployMachinesApp") = 1
           /\ run[p].ret = NilErr

\* A rerun that found an access token already created has finished.
C10_Witness ==
  \E p \in Procs :
    /\ run[p].pc = "done" /\ run[p].entry = "runSetup"
    /\ run[p].start.apps # <<>>
    /\ \E i \in DOMAIN run[p].start.machines :
         run[p].start.machines[i].App = run[p].start.apps[1].Name
    /\ FailureFree(run[p])
    /\ run[p].start.tokens >= 1
    /\ tokens = run[p].start.tokens + 1
    /\ CountOp(run[p].log, "Launch") = 0
    /\ CountOp(run[p].log, "DeployMachinesApp") = 1

\* The calls of operation op in the log that succeeded.
Succeeded(log, op) == {i \in Indices(log, op) : log[i].err = NilErr}

\* C11: cross-run race.  Two setup runs for the same organization interleave
\* at the granularity of remote calls.  Each run still creates only after its
\* own lookup answered that nothing was there (at most one CreateApp, after a
\* GetAppsByRole that answered no app; at most one Launch, after a List that
\* answered no machine; at most one CreateAddOn, after a GetAddOn that
\* answered with an error list), and the remote state holds what the run
\* found at its start plus what the two runs created.  Nothing keeps the
\* other run from creating between the lookup and the creation, so "at most
\* one shipper app / machine / add-on creation per organization" does not
\* follow: the state of C11_Witness is reached.
C11_ConcurrentDuplicates ==
  /\ \A p \in Procs :
       LET log == run[p].log
       IN  /\ CountOp(log, "CreateApp") <= 1
           /\ \A i \in Indices(log, "CreateApp") :
                \E j \in Indices(log, "GetAppsByRole") :
                  j < i /\ log[j].err = NilErr /\ log[j].arg.Nodes = 0
           /\ CountOp(log, "Launch") <= 1
           /\ \A i \in Indices(log, "Launch") :
                \E j \in Indices(log, "List") :
                  /\ j < i /\ log[j].err = NilErr /\ log[j].arg.Machines = 0
                  /\ \A k \in Indices(log, "List") : k < i => k <= j
           /\ CountOp(log, "CreateAddOn") <= 1
           /\ \A i \in Indices(log, "CreateAddOn") :
                \E j \in Indices(log, "GetAddOn") : j < i /\ ChainHasList(log[j].err)
  /\ run[1].pc # "idle" =>
       /\ Len(apps) = Len(run[1].start.apps)
                        + Cardinality(Succeeded(run[1].log, "CreateApp"))
                        + Cardinality(Succeeded(run[2].log, "CreateApp"))
       /\ Len(machines) = Len(run[1].start.machines)
                            + Cardinality(Succeeded(run[1].log, "Launch"))
                            + Cardinality(Succeeded(run[2].log, "Launch"))
       /\ Len(addOns) = Len(run[1].start.addOns)
                          + Cardinality(Succeeded(run[1].log, "CreateAddOn"))
                          + Cardinality(Succeeded(run[2].log, "CreateAddOn"))

\* Both runs have finished; the organization has two log-shipper apps, the
\* shipper app has two machines, and both runs submitted a CreateAddOn for
\* the same add-on name.
C11_Witness ==
  /\ \A p \in Procs :
       /\ run[p].pc = "done" /\ run[p].entry = "runSetup"
       /\ run[p].start.apps = <<>>
       /\ Cardinality(Succeeded(run[p].log, "CreateApp")) = 1
       /\ Cardinality(Succeeded(run[p].log, "Launch")) = 1
       /\ Cardinality(Succeeded(run[p].log, "CreateAddOn")) = 1
  /\ Len(apps) = 2
  /\ apps[1].Name = apps[2].Name
  /\ Len(MachinesOf(apps[1])) = 2
  /\ Len(addOns) = 2
  /\ addOns[1].Name = addOns[2].Name

\* C12: deterministic naming.  The name sent in CreateApp is the raw slug of
\* the organization followed by "-auto-log-shipper"; the add-on name of the
\* GetAddOn lookup and of the CreateAddOn mutation is the name of the target
\* app followed by "-log-shipper", whatever the provider slug; the name of
\* the access token is the slug of the shipper app's organization followed
\* by "-logs".
C12_DeterministicNaming ==
  \A p \in Procs :
    \A i \in DOMAIN run[p].log :
      LET c == run[p].log[i]
      IN  /\ c.op = "CreateApp" => c.arg.Name = TargetOrg.RawSlug \o "-auto-log-shipper"
          /\ c.op \in {"GetAddOn", "CreateAddOn"} => c.arg.Name = TargetApp.Name \o "-log-shipper"
          /\ c.op = "CreateLimitedAccessToken" =>
               c.arg.Name = run[p].shipperApp.Organization.Slug \o "-logs"

\* A setup run with an auto provider has created the app, looked the add-on
\* up and created it, and created the access token.
C12_Witness ==
  \E p \in Procs :
    LET log == run[p].log
    IN  /\ run[p].pc = "done" /\ run[p].entry = "runSetup"
        /\ CountOp(log, "CreateApp") = 1 /\ CountOp(log, "GetAddOn") = 1
        /\ CountOp(log, "CreateAddOn") = 1 /\ CountOp(log, "CreateLimitedAccessToken") = 1
        /\ log[TheIndex(log, "CreateApp")].arg.Name = "acme-auto-log-shipper"
        /\ log[TheIndex(log, "CreateAddOn")].arg.Name = "myapp-log-shipper"
        /\ log[TheIndex(log, "CreateLimitedAccessToken")].arg.Name = "personal-logs"

\* C13: failure propagation of the secret applier.  SetNatsTokenSecret
\* returns a non-nil error whenever the access-token creation, the write of
\* the NATS_TOKEN secret, the building of the deployment or the redeploy
\* failed; and when the token creation failed, no secret write and no
\* redeploy are attempted.
C13_SecretApplierFailurePropagation ==
  \A p \in Procs :
    LET log == run[p].log
    IN  /\ (/\ run[p].sntReturned
            /\ \E i \in DOMAIN log :
                 /\ log[i].op \in {"CreateLimitedAccessToken", "SetSecrets",
                                   "NewMachineDeployment", "DeployMachinesApp"}
                 /\ log[i].err # NilErr)
           => run[p].sntErr # NilErr
        /\ (\E i \in Indices(log, "CreateLimitedAccessToken") : log[i].err # NilErr)
           => /\ CountOp(log, "SetSecrets") = 0
              /\ CountOp(log, "NewMachineDeployment") = 0
              /\ CountOp(log, "DeployMachinesApp") = 0

\* C14: secret before redeploy.  Within SetNatsTokenSecret, every redeploy
\* (DeployMachinesApp) is preceded in the same call by a write of NATS_TOKEN
\* on the shipper app that succeeded and whose value is the token created in
\* that call; no redeploy is triggered when the secret write did not succeed.
C14_SecretBeforeRedeploy ==
  \A p \in Procs :
    LET log == run[p].log
    IN  \A i \in Indices(log, "DeployMachinesApp") :
          /\ \E j \in Indices(log, "SetSecrets") :
               /\ j < i
               /\ log[j].err = NilErr
               /\ log[j].arg = SetSecretsInput(run[p].shipperApp, run[p].natsToken)
               /\ \E k \in Indices(log, "CreateLimitedAccessToken") :
                    k < j /\ log[k].err = NilErr
          /\ \A j \in Indices(log, "SetSecrets") : log[j].err = NilErr

\* EnsureShipperApp was invoked in this call and has returned.
ShipperAppReturned(rec) ==
  rec.esaCalled /\ (rec.esaApp # NoApp \/ rec.esaErr # NilErr)

\* The app the call created: the one CreateApp appended to what the call
\* found at its start.
CreatedApp(rec) == apps[Len(rec.start.apps) + 1]

\* C15: the creation path yields an app with a machine.  When EnsureShipperApp
\* has created the app and returns success, the app returned is the created
\* one and has at least one machine; when the machine step that follows the
\* creation fails (client, listing, region query or launch), EnsureShipperApp
\* returns the error and no app, and the created app stays in the remote
\* state.
C15_CreationPathYieldsMachine ==
  \A p \in Procs :
    (/\ ShipperAppReturned(run[p])
     /\ Succeeded(run[p].log, "CreateApp") # {})
    => /\ Len(apps) = Len(run[p].start.apps) + 1
       /\ Len(run[p].esmRets) >= 1
       /\ IF run[p].esmRets[1] = NilErr
          THEN /\ run[p].esaErr = NilErr
               /\ run[p].esaApp = CreatedApp(run[p])
               /\ Len(MachinesOf(run[p].esaApp)) >= 1
          ELSE /\ run[p].esaErr = run[p].esmRets[1]
               /\ run[p].esaApp = NoApp
               /\ CreatedApp(run[p]).Name = "acme-auto-log-shipper"

\* EnsureShipperApp has created an app, the launch of its machine has failed
\* and the call has returned the launch error: the app is there, without a
\* machine.
C15_Witness ==
  \E p \in Procs :
    /\ run[p].pc = "done" /\ run[p].entry = "EnsureShipperApp"
    /\ Succeeded(run[p].log, "CreateApp") # {}
    /\ \E i \in Indices(run[p].log, "Launch") : run[p].log[i].err # NilErr
    /\ run[p].ret # NilErr /\ run[p].esaApp = NoApp
    /\ Len(apps) = 1 /\ machines = <<>>

\* C16: singleton under sequential runs.  Over any sequence of calls that do
\* not overlap, aborted ones included, the organization has at most one
\* log-shipper app, and a machine is only ever launched when the shipper app
\* has none: the workflow launches at most one machine on it.
C16_SequentialSingleton ==
  /\ [](Len(apps) <= 1)
  /\ [][machines' # machines =>
          /\ Len(apps) = 1
          /\ MachinesOf(apps[1]) = <<>>
          /\ Len(machines') = 1]_vars

\* A setup run that found the app an aborted run had created and left
\* without a machine has launched the machine and finished.
C16_Witness ==
  \E p \in Procs :
    /\ run[p].pc = "done" /\ run[p].entry = "runSetup"
    /\ Len(run[p].start.apps) = 1 /\ run[p].start.apps[1].Id = "shipper1"
    /\ run[p].start.machines = <<>>
    /\ Succeeded(run[p].log, "Launch") # {}
    /\ Len(apps) = 1 /\ Len(machines) = 1

\* s is a prefix of t.
IsPrefix(s, t) == Len(s) <= Len(t) /\ SubSeq(t, 1, Len(s)) = s

\* C17: no rollback, monotonic resources.  No step deletes or changes an app,
\* a machine or an add-on that exists: every step leaves the apps, machines
\* and add-ons there were in place and at most adds to them, in runs that
\* abort with an error as well, so what an aborted run created earlier is
\* still there afterwards.
C17_MonotonicResources ==
  [][/\ IsPrefix(apps, apps')
     /\ IsPrefix(machines, machines')
     /\ IsPrefix(addOns, addOns')]_vars

\* A setup run has created the add-on and the app, then aborted on a failed
\* launch: both are still there.
C17_Witness ==
  \E p \in Procs :
    /\ run[p].pc = "done" /\ run[p].entry = "runSetup" /\ run[p].ret # NilErr
    /\ Succeeded(run[p].log, "CreateAddOn") # {}
    /\ Succeeded(run[p].log, "CreateApp") # {}
    /\ \E i \in Indices(run[p].log, "Launch") : run[p].log[i].err # NilErr
    /\ Len(apps) = Len(run[p].start.apps) + 1
    /\ Len(addOns) = Len(run[p].start.addOns) + 1

\* 1 if the condition holds, else 0.
OneIf(b) == IF b THEN 1 ELSE 0

\* C18: recovery from partial prior completion.  A setup run, whatever it
\* finds at its start (no app; an app without a machine, such as the one left
\* by a run whose launch failed; an app with a machine; the add-on there or
\* not), eventually reaches done; and when all its remote calls succeeded it
\* has created exactly what was missing and nothing that was there: the
\* shipper app exists and has a machine, the add-on of an auto provider
\* exists, NATS_TOKEN has been written on the shipper app with the token of
\* this run, and one redeploy has been triggered.
C18_RecoveryFromPartialCompletion ==
  /\ \A p \in Procs : (run[p].pc \notin {"idle", "done"}) ~> (run[p].pc = "done")
  /\ [](\A p \in Procs :
          (run[p].pc = "done" /\ run[p].entry = "runSetup" /\ FailureFree(run[p]))
          => LET log == run[p].log
                 st == run[p].start
                 hadApp == st.apps # <<>>
                 hadMachine == hadApp /\ \E i \in DOMAIN st.machines :
                                           st.machines[i].App = st.apps[1].Name
                 hadAddOn == \E i \in DOMAIN st.addOns : st.addOns[i].Name = "myapp-log-shipper"
                 auto == log[TheIndex(log, "prompt.Select")].arg.Auto
             IN  /\ run[p].ret = NilErr
                 /\ CountOp(log, "CreateApp") = OneIf(~hadApp)
                 /\ Len(apps) = 1 /\ IsPrefix(st.apps, apps)
                 /\ CountOp(log, "Launch") = OneIf(~hadMachine)
                 /\ Len(machines) = Len(st.machines) + OneIf(~hadMachine)
                 /\ IsPrefix(st.machines, machines)
                 /\ Len(MachinesOf(apps[1])) >= 1
                 /\ CountOp(log, "CreateAddOn") = OneIf(auto /\ ~hadAddOn)
                 /\ Len(addOns) = Len(st.addOns) + OneIf(auto /\ ~hadAddOn)
                 /\ IsPrefix(st.addOns, addOns)
                 /\ CountOp(log, "CreateLimitedAccessToken") = 1
                 /\ tokens = st.tokens + 1
                 /\ CountOp(log, "SetSecrets") = 1
                 /\ [AppId |-> apps[1].Id, Key |-> "NATS_TOKEN", Value |-> <<"nats", tokens>>]
                      \in secrets
                 /\ CountOp(log, "DeployMachinesApp") = 1)

\* A setup run whose calls all succeeded has finished after finding the app
\* of an earlier run whose launch failed: it has launched the machine and
\* has not created an app.
C18_Witness ==
  \E p \in Procs :
    /\ run[p].pc = "done" /\ run[p].entry = "runSetup" /\ FailureFree(run[p])
    /\ Len(run[p].start.apps) = 1 /\ run[p].start.apps[1].Id = "shipper1"
    /\ run[p].start.machines = <<>>
    /\ CountOp(run[p].log, "CreateApp") = 0
    /\ CountOp(run[p].log, "Launch") = 1
    /\ Len(machines) = 1
    /\ CountOp(run[p].log, "DeployMachinesApp") = 1

\* The prompt of this setup run has answered with a provider.
Selected(rec) ==
  rec.entry = "runSetup" /\ Succeeded(rec.log, "prompt.Select") # {}

\* C19: auto-provider gating and registry consistency.  In runSetup,
\* ProvisionAutoShipper is invoked if and only if the provider selected has
\* Auto = TRUE; EnsureShipperApp is invoked whatever the provider, and so is
\* EnsureShipperMachine once EnsureShipperApp has returned an app; every
\* provider of the registry with Auto = TRUE has its slug in AddOnTypes and
\* the slugs of the registry are pairwise distinct, so no setup run submits
\* a CreateAddOn with an unmapped type.
C19_AutoProviderGating ==
  /\ \A i \in DOMAIN providers : providers[i].Auto => providers[i].Slug \in DOMAIN AddOnTypes
  /\ \A i, j \in DOMAIN providers : providers[i].Slug = providers[j].Slug => i = j
  /\ \A p \in Procs :
       LET log == run[p].log
       IN  run[p].entry = "runSetup" =>
             /\ run[p].paCalled <=>
                  (Selected(run[p]) /\ log[TheIndex(log, "prompt.Select")].arg.Auto)
             /\ (Selected(run[p]) /\ run[p].pc \notin {"PA_GetAddOn", "PA_CreateAddOn"})
                => run[p].esaCalled
             /\ (/\ Selected(run[p]) /\ run[p].esaApp # NoApp
                 /\ run[p].pc \notin {"ESA_GetApps", "ESA_CreateApp"})
                => Len(run[p].esmArgs) = 1 + Cardinality(Succeeded(log, "CreateApp"))
             /\ \A i \in Indices(log, "CreateAddOn") : log[i].arg.Type = "AddOnTypeLogtail"

\* A setup run with the Auto provider has finished after an earlier call
\* that created no add-on: it has called ProvisionAutoShipper, submitted a
\* CreateAddOn of the mapped type, and gone through EnsureShipperApp and
\* EnsureShipperMachine.
C19_Witness ==
  \E p \in Procs :
    LET log == run[p].log
    IN  /\ run[p].pc = "done" /\ Selected(run[p])
        /\ run[p].start.tokens = 1 /\ run[p].start.addOns = <<>>
        /\ run[p].paCalled /\ run[p].esaCalled /\ Len(run[p].esmArgs) = 1
        /\ CountOp(log, "CreateAddOn") = 1
        /\ log[TheIndex(log, "CreateAddOn")].arg.Type = AddOnTypes["logtail"]

====
